---- MODULE Spec2Model ----
(***************************************************************************)
(* Model of src/generateur/inverseur.py: the engine AnuleurDeBruitASIO     *)
(* (filter, history ring, audio callback, start/stop, calibration and     *)
(* parameter update) together with the part of sounddevice/PortAudio it    *)
(* drives (stream objects that are constructed, started, stopped, closed   *)
(* and that fire the callback while active).                               *)
(*                                                                         *)
(* Units.  Samples and the gain are integers in hundredths (100 = 1.0), so *)
(* the product gain * sample and the output frame are in units of 1/10000  *)
(* (the limiter 0.95 is 9500).  Times are in microseconds.  Sample rates   *)
(* are scaled down (8 and 12 samples per second stand for 44.1-96 kHz) so  *)
(* that the half-second history ring has 4 or 6 cells; every formula of    *)
(* the source is kept as written and is also evaluated at the real rates   *)
(* where a claim names them.                                               *)
(***************************************************************************)
EXTENDS Integers, Sequences, FiniteSets, TLC

VARIABLES self, pa, ctl, cb, outdata, last, ncb

vars == <<self, pa, ctl, cb, outdata, last, ncb>>

(* ------------------------------ bounds ------------------------------- *)
\* callbacks fired in one behaviour of the control specifications
MaxCallbacks == 1
\* frames processed in one behaviour of the signal specification
MaxFrames == 2
\* stream objects that exist at one time (open, leaked ones included)
MaxStreams == 2
\* length of the two display buffers (1000 in the source)
DisplayLen == 2
\* length of the processing-time window (100 in the source)
TempsMax == 2

(* ------------------------- program constants ------------------------- *)
NONE == 0
ORDRE_INIT == 2
\* 50 Hz and 4000 Hz at 96 kHz, scaled to the model's sample rates
FREQ_BASSE_INIT == 1
FREQ_HAUTE_INIT == 3
\* gain 1.0
GAIN_INIT == 100
\* gain 0.95 set by calibration
GAIN_CALIBRE == 95
\* np.clip(..., -0.95, 0.95) on values in 1/10000
LIMITE == 9500
\* +2 ms safety margin, and the 10 ms default, in microseconds
MARGE_US == 2000
DEFAUT_US == 10000
US_PAR_S == 1000000
\* puissance_entree > 0.001 on squares of hundredths: mean(x^2) > 10
SEUIL_PUISSANCE == 10
\* low-latency mode: order above 2 is cut to 2, frame size above 256
\* (scaled: 2) is cut to it
ORDRE_FAIBLE_LATENCE == 2
TAILLE_FAIBLE_LATENCE == 2

(* ------------------------------ helpers ------------------------------ *)
Max(a, b) == IF a >= b THEN a ELSE b
Min(a, b) == IF a <= b THEN a ELSE b
Abs(x) == IF x < 0 THEN -x ELSE x

\* Python's int() on the quotient n/d (d > 0): truncation toward zero
IntTrunc(n, d) == IF n >= 0 THEN n \div d ELSE -((-n) \div d)

\* Python's round() on n/d (d > 0, n >= 0): nearest, ties to even
RoundHalfEven(n, d) ==
    LET q == n \div d
        r == n % d
    IN  IF 2 * r < d THEN q
        ELSE IF 2 * r > d THEN q + 1
        ELSE IF q % 2 = 0 THEN q ELSE q + 1

RECURSIVE SumSeq(_)
SumSeq(s) == IF s = <<>> THEN 0 ELSE Head(s) + SumSeq(Tail(s))

RECURSIVE Gcd(_, _)
Gcd(a, b) == IF b = 0 THEN a ELSE Gcd(b, a % b)

Zeros(n) == [i \in 1..n |-> 0]

\* all sequences of length n over S
SeqsOfLen(S, n) == [1..n -> S]

(* ------------------- scipy.signal stand-ins (library) ---------------- *)
\* The normalised band edge freq/(sr/2) as a reduced fraction <<p, q>>
Wn(freq, sr) ==
    LET g == Gcd(2 * Abs(freq), sr)
    IN  <<(2 * freq) \div g, sr \div g>>

WnValide(w) == 0 < w[1] /\ w[1] < w[2]
WnLess(w1, w2) == w1[1] * w2[2] < w2[1] * w1[2]

\* coefficients of (z^2 - 1)^N, the numerator pattern of a Butterworth
\* band-pass of order N
RECURSIVE Binom(_, _)
Binom(n, k) == IF k = 0 \/ k = n THEN 1 ELSE Binom(n - 1, k - 1) + Binom(n - 1, k)

NumBandpass(N) ==
    [i \in 1..(2 * N + 1) |->
        IF (i - 1) % 2 = 1 THEN 0
        ELSE LET k == (i - 1) \div 2
             IN  (IF k % 2 = 0 THEN 1 ELSE -1) * Binom(N, k)]

\* integer stand-in for the denominator: a[0] = 1 and 2N feedback terms in
\* {-1, 0, 1} fixed by the band edges
DenBandpass(N, wl, wh) ==
    [i \in 1..(2 * N + 1) |->
        IF i = 1 THEN 1 ELSE ((wl[1] + wh[1] * i + wl[2] + wh[2]) % 3) - 1]

NoArray == [v |-> <<>>, de |-> <<>>]

\* signal.butter(N, [wl, wh], btype='band'): ValueError unless
\* 0 < wl < wh < 1 and N >= 1; else arrays b and a of length 2N+1.  An
\* array is kept with the design it was computed from ("de"), so that two
\* designs never compare equal by accident of the stand-in values.
butter(N, wl, wh) ==
    IF N >= 1 /\ WnValide(wl) /\ WnValide(wh) /\ WnLess(wl, wh)
    THEN [ok |-> TRUE,
          b |-> [v |-> NumBandpass(N), de |-> <<N, wl, wh>>],
          a |-> [v |-> DenBandpass(N, wl, wh), de |-> <<N, wl, wh>>]]
    ELSE [ok |-> FALSE, b |-> NoArray, a |-> NoArray]

\* signal.lfilter_zi(b, a) * 0
lfilter_zi_1(b, a) == [i \in 1..(Max(Len(b.v), Len(a.v)) - 1) |-> 1]
lfilter_zi_0(b, a) == Zeros(Max(Len(b.v), Len(a.v)) - 1)

Pad(v, n) == [i \in 1..n |-> IF i <= Len(v) THEN v[i] ELSE 0]

\* one sample of the transposed direct form II that lfilter runs
LfilterSample(bv, av, x, z) ==
    LET n == Len(bv)
        y == bv[1] * x + (IF n > 1 THEN z[1] ELSE 0)
    IN  [y |-> y,
         z |-> [i \in 1..(n - 1) |->
                  bv[i + 1] * x - av[i + 1] * y + (IF i < n - 1 THEN z[i + 1] ELSE 0)]]

RECURSIVE LfilterRun(_, _, _, _, _)
LfilterRun(bv, av, x, z, acc) ==
    IF x = <<>> THEN [y |-> acc, zf |-> z]
    ELSE LET r == LfilterSample(bv, av, Head(x), z)
         IN  LfilterRun(bv, av, Tail(x), r.z, Append(acc, r.y))

\* signal.lfilter(b, a, x, zi=z): ValueError when zi has not the length
\* max(len(a), len(b)) - 1
lfilter(b, a, x, z) ==
    LET n  == Max(Len(b.v), Len(a.v))
    IN  IF Len(z) # n - 1
        THEN [ok |-> FALSE, y |-> <<>>, zf |-> z]
        ELSE LET r == LfilterRun(Pad(b.v, n), Pad(a.v, n), x, z, <<>>)
             IN  [ok |-> TRUE, y |-> r.y, zf |-> r.zf]

(* ------------------------------ engine ------------------------------- *)
\* AnuleurDeBruitASIO._creer_filtre
_creer_filtre(s) ==
    butter(s.ordre_filtre,
           Wn(s.freq_coupure_basse, s.taux_echantillonnage),
           Wn(s.freq_coupure_haute, s.taux_echantillonnage))

\* AnuleurDeBruitASIO.__init__
EngineInit(taux, taille) ==
    LET s0 == [taux_echantillonnage |-> taux,
               ordre_filtre |-> ORDRE_INIT,
               freq_coupure_basse |-> FREQ_BASSE_INIT,
               freq_coupure_haute |-> FREQ_HAUTE_INIT]
        f  == _creer_filtre(s0)
    IN  [taux_echantillonnage |-> taux,
         taille_tampon |-> taille,
         delai_compensation |-> 0,
         gain |-> GAIN_INIT,
         ordre_filtre |-> ORDRE_INIT,
         freq_coupure_basse |-> FREQ_BASSE_INIT,
         freq_coupure_haute |-> FREQ_HAUTE_INIT,
         b |-> f.b,
         a |-> f.a,
         z |-> lfilter_zi_0(f.b, f.a),
         tampon_historique |-> Zeros(taux \div 2),
         position_tampon |-> 0,
         donnees_entree |-> Zeros(DisplayLen),
         donnees_sortie |-> Zeros(DisplayLen),
         temps_traitement |-> <<>>,
         cpu_usage |-> <<0, 1>>,
         en_cours |-> FALSE,
         stream |-> NONE,
         mode_faible_latence |-> TRUE]

(* --------------------------- audio callback --------------------------- *)
\* np.roll(d, -n)
Roll(d, n) == [i \in 1..Len(d) |-> d[((i - 1 + n) % Len(d)) + 1]]

\* lines 105-109 and 139-143: shift the display buffer and store the frame
\* at its end, or keep the frame's last len(d) samples
Afficher(d, x) ==
    LET n == Len(x)
        L == Len(d)
        r == Roll(d, n)
    IN  IF n < L
        THEN [i \in 1..L |-> IF i > L - n THEN x[i - (L - n)] ELSE r[i]]
        ELSE [i \in 1..L |-> x[n - L + i]]

SetMax(S) == CHOOSE m \in S : \A k \in S : k <= m

\* lines 112-114: tampon_historique[mod(arange(pos, pos+n), cap)] = x
EcrireRien(ring, pos, x) == ring
EcrireHistorique(ring, pos, x) ==
    [j \in 1..Len(ring) |->
        LET ks == {k \in 0..(Len(x) - 1) : (pos + k) % Len(ring) = j - 1}
        IN  IF ks = {} THEN ring[j] ELSE x[SetMax(ks) + 1]]

\* line 115: position_tampon = (position_tampon + n) % cap
AvancerSansModulo(pos, n, cap) == pos + n
Avancer(pos, n, cap) == (pos + n) % cap

\* lines 126-127: tampon_historique[mod(arange(start, start+n), cap)]
LireHistorique(ring, start, n) ==
    [k \in 1..n |-> ring[((start + k - 1) % Len(ring)) + 1]]

\* np.clip(x, -0.95, 0.95)
ClipSansLimite(x) == x
Clip(x) == [i \in 1..Len(x) |-> Max(-LIMITE, Min(LIMITE, x[i]))]

CbIdle ==
    [pc |-> "idle", h |-> NONE, indata |-> <<>>, r1 |-> FALSE, r2 |-> FALSE,
     dur |-> 0, b |-> NoArray, a |-> NoArray, filt |-> <<>>, zf |-> <<>>,
     inv |-> <<>>, sortie |-> <<>>, gain121 |-> 0, delai124 |-> 0]

\* entry of callback_audio on stream h with the frame indata; r1 and r2 are
\* the two np.random.random() < 0.8 draws, dur the measured time in ms.
\* b, a, gain121 and delai124 are the values the invocation has loaded from
\* self.b, self.a, self.gain (line 121) and self.delai_compensation (line 124)
CbEntrySelonTirage(h, indata, r1, r2, dur) ==
    [CbIdle EXCEPT !.pc = "cb104", !.h = h,
                   !.indata = IF r1 THEN indata ELSE Zeros(Len(indata)),
                   !.r1 = r1, !.r2 = r2, !.dur = dur]
CbEntry(h, indata, r1, r2, dur) ==
    [CbIdle EXCEPT !.pc = "cb104", !.h = h, !.indata = indata,
                   !.r1 = r1, !.r2 = r2, !.dur = dur]

\* One step of callback_audio.  m = [self, pa, cb, out]; labels are source
\* lines.  Steps are cut where the callback reads or writes a field that
\* the control thread also touches.
callback_audio(m) ==
    LET s == m.self
        c == m.cb
        x == c.indata
        n == Len(x)
    IN  CASE c.pc = "cb104" ->
               [m EXCEPT !.self.donnees_entree =
                             IF c.r1 THEN Afficher(@, x) ELSE @,
                         !.cb.pc = "cb111"]
          [] c.pc = "cb111" ->
               [m EXCEPT !.self.tampon_historique =
                             EcrireHistorique(@, s.position_tampon, x),
                         !.self.position_tampon =
                             Avancer(@, n, Len(s.tampon_historique)),
                         !.cb.pc = "cb118b"]
          [] c.pc = "cb118b" ->
               [m EXCEPT !.cb.b = s.b, !.cb.pc = "cb118a"]
          [] c.pc = "cb118a" ->
               [m EXCEPT !.cb.a = s.a, !.cb.pc = "cb118z"]
          [] c.pc = "cb118z" ->
               LET r == lfilter(c.b, c.a, x, s.z)
               IN  IF r.ok
                   THEN [m EXCEPT !.cb.filt = r.y, !.cb.zf = r.zf,
                                  !.cb.pc = "cb118s"]
                   ELSE \* the exception leaves the callback: PortAudio
                        \* aborts the stream
                        [m EXCEPT !.pa.streams[c.h].state = "aborted",
                                  !.cb = CbIdle]
          [] c.pc = "cb118s" ->
               [m EXCEPT !.self.z = c.zf, !.cb.pc = "cb121"]
          [] c.pc = "cb121" ->
               [m EXCEPT !.cb.inv = [i \in 1..Len(c.filt) |-> -s.gain * c.filt[i]],
                         !.cb.gain121 = s.gain,
                         !.cb.pc = "cb124"]
          [] c.pc = "cb124" ->
               [m EXCEPT !.cb.delai124 = s.delai_compensation,
                         !.cb.pc = IF s.delai_compensation > 0
                                   THEN "cb125" ELSE "cb132"]
          [] c.pc = "cb125" ->
               LET taille_tampon  == Len(s.tampon_historique)
                   position_delai == (s.position_tampon - s.delai_compensation)
                                         % taille_tampon
                   retard == LireHistorique(s.tampon_historique,
                                            position_delai, Len(c.inv))
               IN  [m EXCEPT !.cb.sortie =
                                 Clip([i \in 1..Len(c.inv) |->
                                          100 * retard[i] + c.inv[i]]),
                             !.cb.pc = "cb138"]
          [] c.pc = "cb132" ->
               [m EXCEPT !.cb.sortie = Clip(c.inv), !.cb.pc = "cb138"]
          [] c.pc = "cb138" ->
               [m EXCEPT !.self.donnees_sortie =
                             IF c.r2 THEN Afficher(@, c.sortie) ELSE @,
                         !.cb.pc = "cb146"]
          [] c.pc = "cb146" ->
               [m EXCEPT !.out = c.sortie, !.cb.pc = "cb157"]
          [] c.pc = "cb157" ->
               LET t1 == Append(s.temps_traitement, c.dur)
                   t2 == IF Len(t1) > TempsMax THEN Tail(t1) ELSE t1
               IN  [m EXCEPT !.self.temps_traitement = t2,
                             !.self.cpu_usage =
                                 <<SumSeq(t2) * s.taux_echantillonnage * 100,
                                   Len(t2) * n * 1000>>,
                             !.cb = CbIdle]
          [] OTHER -> m

RECURSIVE CbRun(_)
CbRun(m) == IF m.cb.pc = "idle" THEN m ELSE CbRun(callback_audio(m))

(* ------------------------ sounddevice streams ------------------------- *)
\* sd.Stream(samplerate, blocksize, ...): the object a successful
\* constructor returns; "stopped" is open and not started
NewStream(samplerate, blocksize, latency) ==
    [samplerate |-> samplerate, blocksize |-> blocksize,
     latency |-> latency, state |-> "stopped"]

\* stream.close() releases the PortAudio stream: the object is gone from
\* the world (the engine drops its reference in the next statement)
CloseStream(streams, h) ==
    [i \in 1..(Len(streams) - 1) |-> IF i < h THEN streams[i] ELSE streams[i + 1]]

\* an open stream that nothing refers to any more: it is never started,
\* stopped, closed or read again, and only that it is still open matters
LeakedStream ==
    [samplerate |-> 0, blocksize |-> 0, latency |-> <<0, 0>>, state |-> "leaked"]

\* the engine rebinds self.stream: the object h it referred to is lost
DropReference(streams, h) ==
    IF h # NONE /\ streams[h].state = "stopped"
    THEN [streams EXCEPT ![h] = LeakedStream]
    ELSE streams

Active(p) == {h \in 1..Len(p.streams) : p.streams[h].state = "active"}
\* every stream of the world is open: constructed and not closed
Open(p) == 1..Len(p.streams)

(* --------------------------- control thread --------------------------- *)
CtlIdle ==
    [pc |-> "idle", stack |-> <<>>, op |-> "none", args |-> <<>>,
     dev |-> <<>>, recalculer_filtre |-> FALSE, redemarrer_stream |-> FALSE,
     f |-> [ok |-> FALSE, b |-> NoArray, a |-> NoArray],
     raised |-> FALSE, ret |-> <<>>, tentatives |-> 0, arrets |-> 0,
     en_cours0 |-> FALSE, gain0 |-> 0, delai0 |-> 0]

Entry(op) ==
    CASE op = "demarrer" -> "d171"
      [] op = "arreter" -> "a208"
      [] op = "calibrer" -> "c230"
      [] op = "regler_parametres" -> "r265"

\* the control thread enters op; dev is what the device will answer if a
\* stream is constructed and started during the call
CtlCall(op, args, dev) ==
    [CtlIdle EXCEPT !.pc = Entry(op), !.op = op, !.args = args, !.dev = dev]

\* return from the current function
Return(m, ret) ==
    IF m.ctl.stack = <<>>
    THEN [m EXCEPT !.ctl.pc = "done", !.ctl.ret = ret]
    ELSE [m EXCEPT !.ctl.pc = Head(m.ctl.stack), !.ctl.stack = Tail(m.ctl.stack)]

\* an exception no caller handles: the call ends raising
Raise(m) ==
    [m EXCEPT !.ctl.pc = "done", !.ctl.stack = <<>>, !.ctl.raised = TRUE]

Call(m, entry, retpc) ==
    [m EXCEPT !.ctl.pc = entry, !.ctl.stack = <<retpc>> \o @]

\* sum(self.stream.latency), microseconds
LatenceTotale(st) == st.latency[1] + st.latency[2]

\* lines 192-193: int(sum(latency) * taux_echantillonnage)
DelaiAutoMarge(latence, sr) == IntTrunc((latence + MARGE_US) * sr, US_PAR_S)
DelaiAuto(latence, sr) == IntTrunc(latence * sr, US_PAR_S)

\* lines 231-236: int((sum(latency) + 0.002) * taux_echantillonnage)
DelaiCalibreArrondi(latence, sr) == RoundHalfEven((latence + MARGE_US) * sr, US_PAR_S)
DelaiCalibre(latence, sr) == IntTrunc((latence + MARGE_US) * sr, US_PAR_S)

\* line 239: int(0.010 * taux_echantillonnage)
DelaiDefautCinq(sr) == IntTrunc((DEFAUT_US \div 2) * sr, US_PAR_S)
DelaiDefaut(sr) == IntTrunc(DEFAUT_US * sr, US_PAR_S)

\* line 208: if self.en_cours
ArreterSansGarde(s) == TRUE
ArreterGarde(s) == s.en_cours

\* line 211: if self.stream
ArreterSansFlux(s) == FALSE
ArreterAFlux(s) == s.stream # NONE

\* line 273: self.taux_echantillonnage = taux_echant, and nothing else of
\* the engine
ChangerTauxEtAnneau(s, taux) ==
    [s EXCEPT !.taux_echantillonnage = taux,
              !.tampon_historique = Zeros(taux \div 2),
              !.position_tampon = 0]
ChangerTaux(s, taux) == [s EXCEPT !.taux_echantillonnage = taux]

\* line 290: if freq_basse is not None or freq_haute is not None or
\* recalculer_filtre
RecalculerToujours(ar, c) == TRUE
DoitRecalculer(ar, c) ==
    "freq_basse" \in DOMAIN ar \/ "freq_haute" \in DOMAIN ar \/ c.recalculer_filtre

\* line 173: self.en_cours = True, and nothing else of the engine
MarquerEtRemettre(s) ==
    [s EXCEPT !.en_cours = TRUE,
              !.tampon_historique = Zeros(Len(@)),
              !.position_tampon = 0,
              !.z = Zeros(Len(@))]
MarquerEnCours(s) == [s EXCEPT !.en_cours = TRUE]

\* line 300: if redemarrer_stream and self.en_cours
RedemarrerSansEtat(c, s) == c.redemarrer_stream
DoitRedemarrer(c, s) == c.redemarrer_stream /\ s.en_cours

\* AnuleurDeBruitASIO.demarrer, one step
demarrer(m) ==
    LET s  == m.self
        pc == m.ctl.pc
    IN  CASE pc = "d171" ->
               [m EXCEPT !.ctl.pc = IF ~s.en_cours THEN "d173" ELSE "d202"]
          [] pc = "d173" ->
               [m EXCEPT !.self = MarquerEnCours(s), !.ctl.pc = "d176"]
          [] pc = "d176" ->
               IF m.ctl.dev.ctor
               THEN [m EXCEPT !.pa.streams =
                                  Append(DropReference(@, s.stream),
                                         NewStream(s.taux_echantillonnage,
                                                   s.taille_tampon,
                                                   m.ctl.dev.latency)),
                              !.ctl.tentatives = @ + 1,
                              !.self.stream = Len(m.pa.streams) + 1,
                              !.ctl.pc = "d186"]
               ELSE [m EXCEPT !.ctl.tentatives = @ + 1, !.ctl.pc = "d198"]
          [] pc = "d186" ->
               IF m.ctl.dev.start
               THEN [m EXCEPT !.pa.streams[s.stream].state = "active",
                              !.ctl.pc = "d192"]
               ELSE [m EXCEPT !.ctl.pc = "d198"]
          [] pc = "d192" ->
               Return([m EXCEPT !.self.delai_compensation =
                          DelaiAuto(LatenceTotale(m.pa.streams[s.stream]),
                                    s.taux_echantillonnage)],
                      TRUE)
          [] pc = "d198" ->
               Raise([m EXCEPT !.self.en_cours = FALSE])
          [] pc = "d202" -> Return(m, FALSE)

\* AnuleurDeBruitASIO.arreter, one step
arreter(m) ==
    LET s  == m.self
        pc == m.ctl.pc
    IN  CASE pc = "a208" ->
               IF ArreterGarde(s) THEN [m EXCEPT !.ctl.pc = "a209"]
               ELSE Return(m, <<>>)
          [] pc = "a209" ->
               [m EXCEPT !.self.en_cours = FALSE, !.ctl.pc = "a211"]
          [] pc = "a211" ->
               IF ArreterAFlux(s) THEN [m EXCEPT !.ctl.pc = "a212"]
               ELSE Return(m, <<>>)
          [] pc = "a212" ->
               [m EXCEPT !.pa.streams[s.stream].state = "stopped",
                         !.ctl.arrets = @ + 1,
                         !.ctl.pc = "a213"]
          [] pc = "a213" ->
               [m EXCEPT !.pa.streams = CloseStream(@, s.stream),
                         !.ctl.pc = "a214"]
          [] pc = "a214" ->
               Return([m EXCEPT !.self.stream = NONE], <<>>)

\* np.mean(np.abs(donnees_entree)**2) > 0.001
PuissanceSuffisante(d) ==
    SumSeq([i \in 1..Len(d) |-> d[i] * d[i]]) > SEUIL_PUISSANCE * Len(d)

\* AnuleurDeBruitASIO.calibrer, one step
calibrer(m) ==
    LET s  == m.self
        pc == m.ctl.pc
    IN  CASE pc = "c230" ->
               [m EXCEPT !.ctl.pc = IF s.stream # NONE THEN "c231" ELSE "c239"]
          [] pc = "c231" ->
               [m EXCEPT !.self.delai_compensation =
                             DelaiCalibre(LatenceTotale(m.pa.streams[s.stream]),
                                          s.taux_echantillonnage),
                         !.ctl.pc = "c242"]
          [] pc = "c239" ->
               [m EXCEPT !.self.delai_compensation =
                             DelaiDefaut(s.taux_echantillonnage),
                         !.ctl.pc = "c242"]
          [] pc = "c242" ->
               LET g == IF Len(s.donnees_entree) > 0 /\ Len(s.donnees_sortie) > 0
                        THEN IF PuissanceSuffisante(s.donnees_entree)
                             THEN GAIN_CALIBRE ELSE GAIN_CALIBRE
                        ELSE GAIN_CALIBRE
               IN  Return([m EXCEPT !.self.gain = g],
                          <<s.delai_compensation, g>>)

Has(args, k) == k \in DOMAIN args

\* AnuleurDeBruitASIO.regler_parametres, one step
regler_parametres(m) ==
    LET s  == m.self
        c  == m.ctl
        pc == c.pc
        ar == c.args
    IN  CASE pc = "r265" ->
               [m EXCEPT !.self.delai_compensation =
                             IF Has(ar, "delai") THEN ar.delai ELSE @,
                         !.ctl.pc = "r267"]
          [] pc = "r267" ->
               [m EXCEPT !.self.gain = IF Has(ar, "gain") THEN ar.gain ELSE @,
                         !.ctl.pc = "r269"]
          [] pc = "r269" ->
               IF Has(ar, "ordre") /\ ar.ordre # s.ordre_filtre
               THEN [m EXCEPT !.self.ordre_filtre = ar.ordre,
                              !.ctl.recalculer_filtre = TRUE,
                              !.ctl.pc = "r272"]
               ELSE [m EXCEPT !.ctl.pc = "r272"]
          [] pc = "r272" ->
               IF Has(ar, "taux_echant") /\ ar.taux_echant # s.taux_echantillonnage
               THEN [m EXCEPT !.self = ChangerTaux(s, ar.taux_echant),
                              !.ctl.recalculer_filtre = TRUE,
                              !.ctl.redemarrer_stream = TRUE,
                              !.ctl.pc = "r276"]
               ELSE [m EXCEPT !.ctl.pc = "r276"]
          [] pc = "r276" ->
               IF Has(ar, "taille_tampon") /\ ar.taille_tampon # s.taille_tampon
               THEN [m EXCEPT !.self.taille_tampon = ar.taille_tampon,
                              !.ctl.redemarrer_stream = TRUE,
                              !.ctl.pc = "r279"]
               ELSE [m EXCEPT !.ctl.pc = "r279"]
          [] pc = "r279" ->
               IF Has(ar, "mode_faible_latence")
               THEN LET reduire == ar.mode_faible_latence
                                     /\ s.ordre_filtre > ORDRE_FAIBLE_LATENCE
                        couper  == reduire /\ s.taille_tampon > TAILLE_FAIBLE_LATENCE
                    IN  [m EXCEPT !.self.mode_faible_latence = ar.mode_faible_latence,
                                  !.self.ordre_filtre =
                                      IF reduire THEN ORDRE_FAIBLE_LATENCE ELSE @,
                                  !.ctl.recalculer_filtre = @ \/ reduire,
                                  !.self.taille_tampon =
                                      IF couper THEN TAILLE_FAIBLE_LATENCE ELSE @,
                                  !.ctl.redemarrer_stream = @ \/ couper,
                                  !.ctl.pc = "r290"]
               ELSE [m EXCEPT !.ctl.pc = "r290"]
          [] pc = "r290" ->
               IF DoitRecalculer(ar, c)
               THEN [m EXCEPT !.self.freq_coupure_basse =
                                  IF Has(ar, "freq_basse") THEN ar.freq_basse ELSE @,
                              !.self.freq_coupure_haute =
                                  IF Has(ar, "freq_haute") THEN ar.freq_haute ELSE @,
                              !.ctl.pc = "r296"]
               ELSE [m EXCEPT !.ctl.pc = "r300"]
          [] pc = "r296" ->
               LET f == _creer_filtre(s)
               IN  IF f.ok
                   THEN [m EXCEPT !.self.b = f.b, !.ctl.f = f, !.ctl.pc = "r296a"]
                   ELSE Raise(m)
          [] pc = "r296a" ->
               [m EXCEPT !.self.a = c.f.a, !.ctl.pc = "r297"]
          [] pc = "r297" ->
               [m EXCEPT !.self.z = lfilter_zi_0(s.b, s.a), !.ctl.pc = "r300"]
          [] pc = "r300" ->
               IF DoitRedemarrer(c, s)
               THEN Call(m, "a208", "r302")
               ELSE Return(m, <<>>)
          [] pc = "r302" -> Call(m, "d171", "r304")
          [] pc = "r304" -> Return(m, <<>>)

\* one step of the control thread, whatever function it is in
ControlStep(m) ==
    LET pc == m.ctl.pc
    IN  IF pc \in {"d171", "d173", "d176", "d186", "d192", "d198", "d202"}
        THEN demarrer(m)
        ELSE IF pc \in {"a208", "a209", "a211", "a212", "a213", "a214"}
        THEN arreter(m)
        ELSE IF pc \in {"c230", "c231", "c239", "c242"}
        THEN calibrer(m)
        ELSE regler_parametres(m)

RECURSIVE ControlRun(_)
ControlRun(m) == IF m.ctl.pc = "done" THEN m ELSE ControlRun(ControlStep(m))

(* ------------------------------ inputs -------------------------------- *)
\* constructor arguments taux_echantillonnage and taille_tampon
SampleRates == {8, 12}
FrameSizes == {1, 2}

\* (input, output) latency a stream reports, microseconds
Latencies == {<<100000, 149900>>, <<300000, 400000>>}

\* what the device answers to sd.Stream(...) and to stream.start()
Devices ==
    {[ctor |-> FALSE, start |-> FALSE, latency |-> <<0, 0>>]}
    \cup [ctor : {TRUE}, start : BOOLEAN, latency : Latencies]

\* the answers with one latency, for the lifecycle
DevicesVie ==
    {[ctor |-> FALSE, start |-> FALSE, latency |-> <<0, 0>>]}
    \cup [ctor : {TRUE}, start : BOOLEAN, latency : {<<300000, 400000>>}]

NoDevice == [ctor |-> FALSE, start |-> FALSE, latency |-> <<0, 0>>]
NoArgs == <<>>

\* arguments of regler_parametres that touch the stream configuration
DeltasFlux ==
    {[taux_echant |-> 8], [taux_echant |-> 12],
     [taille_tampon |-> 1], [taille_tampon |-> 2]}

\* arguments of regler_parametres that touch gain and delay only
DeltasParam ==
    {[gain |-> 200], [gain |-> -50], [delai |-> 7], [delai |-> -1]}

SamplesCtl == {100}
Durations == {1}

(* ------------------------- state and actions -------------------------- *)
PaInit == [streams |-> <<>>]

\* the last call that returned: what it was, how it ended, whether the
\* controller was running when it was made, and how many streams it tried to
\* construct and how many it stopped
LastInit ==
    [op |-> "init", args |-> NoArgs, raised |-> FALSE, ret |-> <<>>,
     en_cours |-> FALSE, tentatives |-> 0, arrets |-> 0]

Init ==
    /\ \E taux \in SampleRates, taille \in FrameSizes :
           self = EngineInit(taux, taille)
    /\ pa = PaInit
    /\ ctl = CtlIdle
    /\ cb = CbIdle
    /\ outdata = <<>>
    /\ last = LastInit
    /\ ncb = 0

\* a call that may construct a stream is made only while the behaviour may
\* still construct one
MayCall(op) ==
    op \in {"demarrer", "regler_parametres"} => Len(pa.streams) < MaxStreams

\* a whole call of the control thread, run to its return or its exception
Appel(op, args, dev) ==
    /\ ctl.pc = "idle"
    /\ cb.pc = "idle"
    /\ MayCall(op)
    /\ LET m == ControlRun([self |-> self, pa |-> pa, ctl |-> CtlCall(op, args, dev)])
       IN  /\ self' = m.self
           /\ pa' = m.pa
           /\ last' = [op |-> op, args |-> args, raised |-> m.ctl.raised,
                       ret |-> m.ctl.ret, en_cours |-> self.en_cours,
                       tentatives |-> m.ctl.tentatives, arrets |-> m.ctl.arrets]
    /\ UNCHANGED <<ctl, cb, outdata, ncb>>

Demarrer(D) == \E dev \in D : Appel("demarrer", NoArgs, dev)
DemarrerVie == Demarrer(DevicesVie)
DemarrerCal == Demarrer(Devices)
Arreter == Appel("arreter", NoArgs, NoDevice)
Calibrer == Appel("calibrer", NoArgs, NoDevice)
\* the device is asked only by a call that restarts the stream
Restarts(args) ==
    ControlRun([self |-> self, pa |-> pa,
                ctl |-> CtlCall("regler_parametres", args, NoDevice)]).ctl.tentatives
        > 0

Regler(A, D) ==
    \E args \in A :
        \E dev \in (IF Restarts(args) THEN D ELSE {NoDevice}) :
            Appel("regler_parametres", args, dev)

ReglerFlux == Regler(DeltasFlux, DevicesVie)
ReglerParam == Regler(DeltasParam, Devices)

\* a whole invocation of callback_audio by an active stream, on a frame
\* over S and with the display draws in R, at most N times
Rappel(S, R, N) ==
    /\ ctl.pc = "idle"
    /\ cb.pc = "idle"
    /\ ncb < N
    /\ \E h \in Active(pa), r1 \in R, r2 \in R, dur \in Durations :
         \E indata \in SeqsOfLen(S, pa.streams[h].blocksize) :
           LET m == CbRun([self |-> self, pa |-> pa, out |-> outdata,
                           cb |-> CbEntry(h, indata, r1, r2, dur)])
           IN  /\ self' = m.self
               /\ pa' = m.pa
               /\ outdata' = m.out
               /\ last' = [op |-> "callback_audio", args |-> indata,
                           raised |-> FALSE, ret |-> <<>>,
                           en_cours |-> self.en_cours,
                           tentatives |-> 0, arrets |-> 0]
    /\ ncb' = ncb + 1
    /\ UNCHANGED <<ctl, cb>>

RappelCtl == Rappel(SamplesCtl, {TRUE}, MaxCallbacks)

\* lifecycle: start, stop, and the updates that restart the stream
Next == DemarrerVie \/ Arreter \/ ReglerFlux \/ RappelCtl

Spec == Init /\ [][Next]_vars

\* calibration and the gain and delay updates
NextCal == DemarrerCal \/ Arreter \/ Calibrer \/ ReglerParam \/ RappelCtl

SpecCal == Init /\ [][NextCal]_vars

(* ----------------------- signal specification ------------------------ *)
GainsDSP == {100, 200}
DelaisDSP == {0, 1, 3, 5}
SamplesDSP == {-100, 0, 100}

\* the engine after demarrer() on a working device and
\* regler_parametres(delai, gain)
EngineRunning(taux, taille, delai, gain) ==
    LET m1 == ControlRun([self |-> EngineInit(taux, taille), pa |-> PaInit,
                          ctl |-> CtlCall("demarrer", NoArgs,
                                          [ctor |-> TRUE, start |-> TRUE,
                                           latency |-> <<100000, 149900>>])])
    IN  ControlRun([self |-> m1.self, pa |-> m1.pa,
                    ctl |-> CtlCall("regler_parametres",
                                    [delai |-> delai, gain |-> gain], NoDevice)])

InitDSP ==
    /\ \E taux \in {8}, taille \in FrameSizes, delai \in DelaisDSP, gain \in GainsDSP :
           LET m == EngineRunning(taux, taille, delai, gain)
           IN  self = m.self /\ pa = m.pa
    /\ ctl = CtlIdle
    /\ cb = CbIdle
    /\ outdata = <<>>
    /\ last = LastInit
    /\ ncb = 0

RappelDSP == Rappel(SamplesDSP, BOOLEAN, MaxFrames)

NextDSP == RappelDSP

SpecDSP == InitDSP /\ [][NextDSP]_vars

(* --------------------- interleaving specification --------------------- *)
\* arguments of regler_parametres made while callbacks may be running
DeltasConc ==
    {[taux_echant |-> 12], [taille_tampon |-> 1]}

\* the control thread enters a call of one of Ops, regler_parametres with
\* arguments in A, on a device answering as one of D; en_cours0, gain0 and
\* delai0 keep what the engine held when the call was made
ConcAppelDe(Ops, A, D) ==
    /\ ctl.pc = "idle"
    /\ \E op \in Ops :
         /\ MayCall(op)
         /\ \E args \in (IF op = "regler_parametres" THEN A ELSE {NoArgs}),
               dev \in (IF op \in {"arreter", "calibrer"} THEN {NoDevice} ELSE D) :
              ctl' = [CtlCall(op, args, dev) EXCEPT
                          !.en_cours0 = self.en_cours,
                          !.gain0 = self.gain,
                          !.delai0 = self.delai_compensation]
    /\ UNCHANGED <<self, pa, cb, outdata, last, ncb>>

ConcAppel ==
    ConcAppelDe({"demarrer", "arreter", "regler_parametres"}, DeltasConc, DevicesVie)

\* stream.stop() returns only when no callback of that stream is running
StopSansAttente == TRUE
StopPeutFinir == cb.pc = "idle" \/ cb.h # self.stream

\* the control thread executes one statement
ConcPas ==
    /\ ctl.pc \notin {"idle", "done"}
    /\ ctl.pc = "a212" => StopPeutFinir
    /\ LET m == ControlStep([self |-> self, pa |-> pa, ctl |-> ctl])
       IN  self' = m.self /\ pa' = m.pa /\ ctl' = m.ctl
    /\ UNCHANGED <<cb, outdata, last, ncb>>

\* the call returns (or raises) to the caller
ConcRetour ==
    /\ ctl.pc = "done"
    /\ last' = [op |-> ctl.op, args |-> ctl.args, raised |-> ctl.raised,
                ret |-> ctl.ret, en_cours |-> ctl.en_cours0,
                tentatives |-> ctl.tentatives, arrets |-> ctl.arrets]
    /\ ctl' = CtlIdle
    /\ UNCHANGED <<self, pa, cb, outdata, ncb>>

\* an active stream enters callback_audio
ConcRappelDebut ==
    /\ cb.pc = "idle"
    /\ ncb < MaxCallbacks
    /\ \E h \in Active(pa) :
         \E indata \in SeqsOfLen(SamplesCtl, pa.streams[h].blocksize) :
            cb' = CbEntry(h, indata, TRUE, TRUE, 1)
    /\ ncb' = ncb + 1
    /\ UNCHANGED <<self, pa, ctl, outdata, last>>

\* the callback executes one statement
ConcRappelPas ==
    /\ cb.pc # "idle"
    /\ LET m == callback_audio([self |-> self, pa |-> pa, cb |-> cb, out |-> outdata])
       IN  self' = m.self /\ pa' = m.pa /\ cb' = m.cb /\ outdata' = m.out
    /\ UNCHANGED <<ctl, last, ncb>>

NextConc == ConcAppel \/ ConcPas \/ ConcRetour \/ ConcRappelDebut \/ ConcRappelPas

\* the engine as the interface constructs it: one rate, one frame size
InitConc == Init /\ self = EngineInit(8, 2)

SpecConc == InitConc /\ [][NextConc]_vars

\* The same interleaving with the control thread always scheduled.  The
\* callback thread belongs to PortAudio and the driver: nothing in the
\* program makes it advance, so it carries no fairness condition.
SpecVif == SpecConc /\ WF_vars(ConcPas) /\ WF_vars(ConcRetour)

(* ---------------- updates interleaved with the callback --------------- *)
\* arguments of regler_parametres made on a running engine: a new order,
\* a new delay, a new delay with a new gain
DeltasRegl ==
    {[ordre |-> 1], [delai |-> 0], [delai |-> 1, gain |-> 50]}

\* a running engine with frames of 2 samples, delay 3 and gain 1.0
InitRegl ==
    /\ LET m == EngineRunning(8, 2, 3, GAIN_INIT)
       IN  self = m.self /\ pa = m.pa
    /\ ctl = CtlIdle
    /\ cb = CbIdle
    /\ outdata = <<>>
    /\ last = LastInit
    /\ ncb = 0

ReglAppel == ConcAppelDe({"regler_parametres", "calibrer"}, DeltasRegl, {NoDevice})

NextRegl == ReglAppel \/ ConcPas \/ ConcRetour \/ ConcRappelDebut \/ ConcRappelPas

SpecRegl == InitRegl /\ [][NextRegl]_vars

(* ------------------------ filter specification ----------------------- *)
\* arguments of regler_parametres that touch the filter: a low cutoff equal
\* to the initial high one, the initial low one, a high cutoff that is
\* below half of one sample rate only, an order, a sample rate
DeltasFiltre ==
    {[freq_basse |-> 3], [freq_basse |-> 1], [freq_haute |-> 5],
     [ordre |-> 1], [taux_echant |-> 8]}

ReglerFiltre == Regler(DeltasFiltre, DevicesVie)

\* start, stop and the updates of the filter
NextFiltre == DemarrerVie \/ Arreter \/ ReglerFiltre \/ RappelCtl

SpecFiltre == Init /\ [][NextFiltre]_vars

(* ------------------------------- claims ------------------------------- *)
Idle == ~self.en_cours /\ self.stream = NONE

\* C1: when demarrer fails (the constructor or stream.start() raises), on
\* return the controller is not running and holds no device handle: no
\* stream is left open and self.stream is empty.
C1_FailedStartReleasesHandle ==
    (last.op = "demarrer" /\ last.raised) =>
        (~self.en_cours /\ self.stream = NONE /\ Open(pa) = {})

\* C2: arreter on a controller that is not running raises nothing and
\* changes no field of the engine and no stream; arreter on a running one
\* raises nothing and ends not running with no stream reference, so that a
\* second arreter is the first case.
C2_StopIdempotent ==
    [][Arreter =>
         /\ ~last'.raised
         /\ ~self'.en_cours
         /\ (~self.en_cours => self' = self /\ pa' = pa /\ outdata' = outdata
                                /\ last'.arrets = 0)
         /\ (self.en_cours => Idle')]_vars

\* arreter has returned from a call made on a controller that was not running
C2_Witness ==
    last.op = "arreter" /\ ~last.en_cours /\ ~last.raised /\ ~self.en_cours

\* C6: regler_parametres called while running with a changed sample rate or
\* frame size, when it returns, has stopped one stream and constructed one,
\* and the controller is running on an active stream opened with the new
\* sample rate and frame size; when neither changes, or the controller is
\* not running, no stream is stopped or constructed.
C6_RestartOnConfigChange ==
    [][ReglerFlux =>
         LET ar == last'.args
             change ==
                 \/ (Has(ar, "taux_echant") /\ ar.taux_echant # self.taux_echantillonnage)
                 \/ (Has(ar, "taille_tampon") /\ ar.taille_tampon # self.taille_tampon)
         IN  /\ (self.en_cours /\ change /\ ~last'.raised) =>
                    /\ self'.en_cours
                    /\ self'.stream \in Active(pa')
                    /\ pa'.streams[self'.stream].samplerate = self'.taux_echantillonnage
                    /\ pa'.streams[self'.stream].blocksize = self'.taille_tampon
                    /\ (Has(ar, "taux_echant") => self'.taux_echantillonnage = ar.taux_echant)
                    /\ (Has(ar, "taille_tampon") => self'.taille_tampon = ar.taille_tampon)
                    /\ last'.arrets = 1 /\ last'.tentatives = 1
             /\ (~self.en_cours \/ ~change) =>
                    /\ pa' = pa
                    /\ last'.arrets = 0 /\ last'.tentatives = 0
                    /\ self'.en_cours = self.en_cours
                    /\ self'.stream = self.stream
                    /\ ~last'.raised]_vars

\* regler_parametres has returned from a restart made while running
C6_Witness ==
    /\ last.op = "regler_parametres" /\ last.en_cours /\ ~last.raised
    /\ last.tentatives = 1 /\ last.arrets = 1
    /\ self.en_cours /\ self.stream \in Active(pa)

\* C3: calibrer called while the controller is not running fails and leaves
\* gain and delai_compensation as they were.
C3_CalibrateNeedsRunning ==
    [][(Calibrer /\ ~self.en_cours) =>
           /\ last'.raised
           /\ self'.gain = self.gain
           /\ self'.delai_compensation = self.delai_compensation]_vars

C9_DelayWithinCapacity ==
    /\ self.delai_compensation >= 0
    /\ self.delai_compensation + self.taille_tampon <= Len(self.tampon_historique)

\* C10: the gain a callback has applied is never negative and never 1.3 or
\* more.
C10_GainBounded ==
    last.op = "callback_audio" => (self.gain >= 0 /\ self.gain < 130)

\* C5: once arreter has returned and until demarrer is entered again (the
\* controller is not running and the control thread is in neither of them)
\* no callback is executing and no stream is active to fire one; and an
\* arreter made while running has closed the stream and dropped it before
\* it returns.
C5_NoCallbackAfterStop ==
    /\ (~self.en_cours
        /\ ctl.pc \notin {"d171", "d173", "d176", "d186", "d192", "d198", "d202",
                          "a208", "a209", "a211", "a212", "a213", "a214"})
           => (cb.pc = "idle" /\ Active(pa) = {})
    /\ (ctl.pc \in {"idle", "done"} /\ ctl.op = "arreter" /\ ctl.en_cours0)
           => (self.stream = NONE /\ Active(pa) = {})
    /\ (ctl.pc = "idle" /\ last.op = "arreter" /\ last.en_cours)
           => (self.stream = NONE /\ last.arrets = 1)

\* arreter has returned from a call made while running, after a callback
\* had been fired
C5_Witness ==
    /\ ctl.pc = "idle" /\ last.op = "arreter" /\ last.en_cours
    /\ ncb >= 1 /\ cb.pc = "idle" /\ Active(pa) = {}

\* C7: whenever the callback executes, the engine's sample rate and frame
\* size are those its stream was opened with, and the coefficients are the
\* ones designed for that sample rate.
C7_ConfigFixedWhileRunning ==
    cb.pc # "idle" =>
        LET st == pa.streams[cb.h]
            f  == _creer_filtre([self EXCEPT !.taux_echantillonnage = st.samplerate])
        IN  /\ self.taux_echantillonnage = st.samplerate
            /\ self.taille_tampon = st.blocksize
            /\ self.b = f.b /\ self.a = f.a

\* C8: every sample of the frame a callback has output, and of the output
\* display buffer, lies in [-0.95, 0.95]; the output has the input's length.
C8_OutputLimited ==
    /\ \A i \in DOMAIN self.donnees_sortie :
           -9500 <= self.donnees_sortie[i] /\ self.donnees_sortie[i] <= 9500
    /\ last.op = "callback_audio" =>
           /\ Len(outdata) = Len(last.args)
           /\ \A i \in DOMAIN outdata : -9500 <= outdata[i] /\ outdata[i] <= 9500

\* a callback with gain 2.0 and a delayed reference has output a sample at
\* the limit
C8_Witness ==
    /\ last.op = "callback_audio"
    /\ self.gain = 200 /\ self.delai_compensation > 0
    /\ \E i \in DOMAIN outdata : outdata[i] = 9500 \/ outdata[i] = -9500

\* the stored filter parameters satisfy 0 < low < high < sampleRate / 2
ParamsValides(s) ==
    /\ 0 < s.freq_coupure_basse
    /\ s.freq_coupure_basse < s.freq_coupure_haute
    /\ 2 * s.freq_coupure_haute < s.taux_echantillonnage

\* C11: after every regler_parametres that touches the filter the stored
\* parameters satisfy 0 < low < high < sampleRate/2 and the coefficients are
\* the ones designed from the stored parameters; and a call that is rejected
\* leaves the stored parameters, the coefficients and the filter state as
\* they were.
C11_FilterSpecValid ==
    [][ReglerFiltre =>
         /\ ParamsValides(self')
         /\ _creer_filtre(self').ok
         /\ self'.b = _creer_filtre(self').b
         /\ self'.a = _creer_filtre(self').a
         /\ last'.raised =>
              /\ self'.freq_coupure_basse = self.freq_coupure_basse
              /\ self'.freq_coupure_haute = self.freq_coupure_haute
              /\ self'.ordre_filtre = self.ordre_filtre
              /\ self'.taux_echantillonnage = self.taux_echantillonnage
              /\ self'.b = self.b /\ self'.a = self.a /\ self'.z = self.z]_vars

\* C12: demarrer called while the stored low cutoff is not below the high
\* one fails without trying to construct a stream, and the controller is
\* not running afterwards.
C12_StartRejectsInvalidFilter ==
    (last.op = "demarrer" /\ self.freq_coupure_basse >= self.freq_coupure_haute)
        => (last.raised /\ last.tentatives = 0 /\ ~self.en_cours)

\* the frame a callback outputs on input x from engine state s when it
\* applies the gain g
SortieAvecGain(s, x, g) ==
    LET n    == Len(x)
        cap  == Len(s.tampon_historique)
        ring == EcrireHistorique(s.tampon_historique, s.position_tampon, x)
        pos  == (s.position_tampon + n) % cap
        y    == lfilter(s.b, s.a, x, s.z).y
        inv  == [i \in 1..n |-> -g * y[i]]
        ret  == LireHistorique(ring, (pos - s.delai_compensation) % cap, n)
    IN  IF s.delai_compensation > 0
        THEN Clip([i \in 1..n |-> 100 * ret[i] + inv[i]])
        ELSE Clip(inv)

\* C13: regler_parametres with only gain or only delai stores the value and
\* leaves the coefficients, the filter state, the ring, its cursor, the
\* sample rate, the frame size, en_cours, the stream reference and every
\* stream as they were, stopping and constructing nothing; and the frame
\* processed next is computed with the gain the call has set.
C13_GainDelayOnlyUpdate ==
    [][/\ ReglerParam =>
            LET ar == last'.args
            IN  /\ ~last'.raised
                /\ last'.tentatives = 0 /\ last'.arrets = 0
                /\ pa' = pa
                /\ self'.gain = (IF Has(ar, "gain") THEN ar.gain ELSE self.gain)
                /\ self'.delai_compensation =
                       (IF Has(ar, "delai") THEN ar.delai ELSE self.delai_compensation)
                /\ self' = [self EXCEPT !.gain = self'.gain,
                                        !.delai_compensation = self'.delai_compensation]
       /\ (RappelCtl /\ last.op = "regler_parametres" /\ Has(last.args, "gain")) =>
            /\ self.gain = last.args.gain
            /\ outdata' = SortieAvecGain(self, last'.args, last.args.gain)]_vars

\* regler_parametres has set the gain on a running controller whose filter
\* state a callback had left non-zero, and the state is still that one
C13_Witness ==
    /\ last.op = "regler_parametres" /\ Has(last.args, "gain") /\ last.en_cours
    /\ self.gain = last.args.gain
    /\ self.en_cours /\ self.stream \in Active(pa)
    /\ ncb >= 1 /\ self.z # lfilter_zi_0(self.b, self.a)

\* C14: a demarrer that fails has tried to construct a stream exactly once;
\* and a demarrer that succeeds, after whatever failures, leaves the
\* controller running on an active stream that is the only stream open.
C14_FailedStartReusable ==
    /\ (last.op = "demarrer" /\ last.raised) => last.tentatives = 1
    /\ (last.op = "demarrer" /\ ~last.raised /\ ~last.en_cours) =>
           /\ last.tentatives = 1
           /\ self.en_cours
           /\ self.stream \in Active(pa)
           /\ Cardinality(Open(pa)) = 1

\* C15: calibrer called when the engine holds no stream sets and returns
\* the delay that is 10 ms of samples, the integer d with
\* d <= 0.010 * rate < d + 1 (960 at 96000 Hz, 480 at 48000 Hz, 441 at
\* 44100 Hz), and the gain 0.95.
C15_CalibrateDefaultDelay ==
    /\ (last.op = "calibrer" /\ self.stream = NONE) =>
           LET d == self.delai_compensation
           IN  /\ ~last.raised
               /\ d * 1000000 <= 10000 * self.taux_echantillonnage
               /\ 10000 * self.taux_echantillonnage < (d + 1) * 1000000
               /\ self.gain = 95
               /\ last.ret = <<d, 95>>
    /\ DelaiDefaut(96000) = 960
    /\ DelaiDefaut(48000) = 480
    /\ DelaiDefaut(44100) = 441

\* calibrer has returned, on a controller that was not running and holds no
\* stream, the default delay and the gain 0.95
C15_Witness ==
    /\ last.op = "calibrer" /\ self.stream = NONE /\ ~last.en_cours
    /\ self.gain = 95 /\ last.ret = <<DelaiDefaut(self.taux_echantillonnage), 95>>

\* the display buffers, the processing-time window and the CPU estimate
Telemetrie ==
    <<self.donnees_entree, self.donnees_sortie, self.temps_traitement,
      self.cpu_usage>>

\* the control thread is inside arreter or demarrer
DansArretOuDemarrage ==
    ctl.pc \in {"d171", "d173", "d176", "d186", "d192", "d198", "d202",
                "a208", "a209", "a211", "a212", "a213", "a214"}

\* C16 as stated: in every state where en_cours is False no step changes
\* the display buffers, the processing-time window or the CPU estimate.
C16_TelemetryFrozenNotRunning ==
    [][~self.en_cours => Telemetrie' = Telemetrie]_vars

\* C16 as amended: from the return of arreter until demarrer is entered
\* (en_cours is False and the control thread is in neither) no step changes
\* the display buffers, the processing-time window or the CPU estimate.
C16_TelemetryFrozenAfterStop ==
    [][(~self.en_cours /\ ~DansArretOuDemarrage) => Telemetrie' = Telemetrie]_vars

\* arreter has returned from a call made while running, and the input
\* display buffer holds what a callback wrote
C16_Witness ==
    /\ ctl.pc = "idle" /\ last.op = "arreter" /\ last.en_cours /\ ~self.en_cours
    /\ ncb >= 1
    /\ self.donnees_entree # Zeros(DisplayLen)
    /\ self.temps_traitement # <<>>

\* the control thread is inside arreter
DansArret == ctl.pc \in {"a208", "a209", "a211", "a212", "a213", "a214"}

\* C17: arreter, once entered, always eventually returns (or raises),
\* whatever the callback thread does.
C17_StopReturns == DansArret ~> ~DansArret

\* C18: when a callback calls lfilter its b and a come from one design and
\* the filter state has the dimension of that design; and when it writes
\* the carried state back, the engine's coefficients are still the ones the
\* state was computed with.
C18_FilterSwapConsistent ==
    [][ConcRappelPas =>
         /\ cb.pc = "cb118z" =>
                /\ cb.b.de = cb.a.de
                /\ Len(self.z) = Max(Len(cb.b.v), Len(cb.a.v)) - 1
         /\ cb.pc = "cb118s" => (self.b = cb.b /\ self.a = cb.a)]_vars

\* C19: the delay a callback uses for the read offset (line 125) is the
\* value it has tested at line 124.
C19_DelayReadOnce ==
    [][(ConcRappelPas /\ cb.pc = "cb125") =>
           self.delai_compensation = cb.delai124]_vars

\* an update of both values has stored the new delay and not yet the new gain
EntreDeuxEcritures ==
    \/ /\ ctl.pc = "r267"
       /\ Has(ctl.args, "delai") /\ Has(ctl.args, "gain")
       /\ ctl.args.gain # self.gain
    \/ /\ ctl.pc = "c242"
       /\ GAIN_CALIBRE # self.gain

\* C20: no callback processes a frame with the old gain and the new delay
\* of one update: a callback that has loaded the gain an update is about to
\* replace never loads, at line 124, the delay that update has just stored.
C20_PairPublishedAtomically ==
    [][(ConcRappelPas /\ cb.pc = "cb124") =>
           ~(/\ EntreDeuxEcritures
             /\ self.delai_compensation # ctl.delai0
             /\ cb.gain121 = self.gain)]_vars

\* the frame lfilter returns for the raw frame x in the engine state s
Filtree(s, x) == lfilter(s.b, s.a, x, s.z).y

\* the n samples of the ring that end d samples behind the cursor:
\* positions cursor-d-n .. cursor-d-1
RetardFinissant(ring, cursor, d, n) ==
    [i \in 1..n |-> ring[((cursor - d - n + i - 1) % Len(ring)) + 1]]

\* clamp(reference - gain * filtered)
SortieMixee(ref, s, x) ==
    Clip([i \in 1..Len(x) |-> 100 * ref[i] - s.gain * Filtree(s, x)[i]])

\* C21: with a delay d > 0 that fits the ring with the frame, the callback
\* outputs clamp(reference - gain * filtered), the reference being the n
\* samples of the ring that end d samples behind the cursor after the write,
\* so that reference sample i was captured d samples before raw sample i.
C21_ReferenceEndsBehindCursor ==
    [][(/\ last'.op = "callback_audio"
        /\ self.delai_compensation > 0
        /\ self.delai_compensation + Len(last'.args)
               <= Len(self.tampon_historique))
       => outdata' = SortieMixee(
                         RetardFinissant(self'.tampon_historique,
                                         self'.position_tampon,
                                         self.delai_compensation,
                                         Len(last'.args)),
                         self, last'.args)]_vars

\* C22: with a delay of 0 the reference is the frame just written, and the
\* callback outputs clamp(raw - gain * filtered).
C22_ZeroDelayMixesRaw ==
    [][(last'.op = "callback_audio" /\ self.delai_compensation = 0)
       => outdata' = SortieMixee(last'.args, self, last'.args)]_vars

\* C23: a callback writes its raw frame to the ring once, at the cursor, and
\* advances the cursor once by the frame's length, touching no other
\* position; the delayed read of the same callback reads the ring and the
\* cursor as the write has left them.
C23_WriteOnceBeforeRead ==
    [][last'.op = "callback_audio" =>
          LET x   == last'.args
              n   == Len(x)
              cap == Len(self.tampon_historique)
              pos == self.position_tampon
              d   == self.delai_compensation
              ecrites == {(pos + k) % cap : k \in 0..(n - 1)}
          IN  /\ self'.position_tampon = (pos + n) % cap
              /\ \A k \in 0..(n - 1) :
                     self'.tampon_historique[((pos + k) % cap) + 1] = x[k + 1]
              /\ \A j \in 0..(cap - 1) :
                     j \notin ecrites =>
                         self'.tampon_historique[j + 1] =
                             self.tampon_historique[j + 1]
              /\ d > 0 =>
                     outdata' =
                         SortieMixee(
                             [i \in 1..n |->
                                 self'.tampon_historique[
                                     ((self'.position_tampon - d + i - 1) % cap) + 1]],
                             self, x)]_vars

\* a second callback has written a frame of two behind a first one, the
\* cursor has wrapped to 0, and the delay is 1: the delayed read starts at
\* the sample this callback has written last
C23_Witness ==
    /\ last.op = "callback_audio"
    /\ ncb = 2
    /\ Len(last.args) = 2
    /\ self.delai_compensation = 1
    /\ self.position_tampon = 0
    /\ last.args = <<-100, 100>>
    /\ self.tampon_historique = <<100, -100, -100, 100>>
    /\ self.gain = 100

(* -------------------------- ring specification ------------------------ *)
\* frame sizes that divide the ring's capacity and one that does not
TaillesAnneau == {1, 2, 3}

InitAnneau ==
    /\ \E taux \in SampleRates, taille \in TaillesAnneau,
          delai \in DelaisDSP, gain \in GainsDSP :
           LET m == EngineRunning(taux, taille, delai, gain)
           IN  self = m.self /\ pa = m.pa
    /\ ctl = CtlIdle
    /\ cb = CbIdle
    /\ outdata = <<>>
    /\ last = LastInit
    /\ ncb = 0

\* the frame that holds the samples number first+1 .. first+n, each sample
\* carrying its arrival number as its value
TrameNumerotee(first, n) == [i \in 1..n |-> first + i]

\* a whole invocation of callback_audio by an active stream on the next
\* numbered frame
RappelNumerote ==
    /\ ctl.pc = "idle"
    /\ cb.pc = "idle"
    /\ ncb < MaxFrames
    /\ \E h \in Active(pa), r1 \in BOOLEAN, r2 \in BOOLEAN, dur \in Durations :
           LET n == pa.streams[h].blocksize
               indata == TrameNumerotee(ncb * n, n)
               m == CbRun([self |-> self, pa |-> pa, out |-> outdata,
                           cb |-> CbEntry(h, indata, r1, r2, dur)])
           IN  /\ self' = m.self
               /\ pa' = m.pa
               /\ outdata' = m.out
               /\ last' = [op |-> "callback_audio", args |-> indata,
                           raised |-> FALSE, ret |-> <<>>,
                           en_cours |-> self.en_cours,
                           tentatives |-> 0, arrets |-> 0]
    /\ ncb' = ncb + 1
    /\ UNCHANGED <<ctl, cb>>

NextAnneau == RappelNumerote

SpecAnneau == InitAnneau /\ [][NextAnneau]_vars

\* the ring of capacity cap after the samples 1..total have arrived: each
\* position holds the latest sample that fell on it, 0 if none did
DerniersEchantillons(total, cap) ==
    [j \in 1..cap |->
        LET S == {k \in 1..total : (k - 1) % cap = j - 1}
        IN  IF S = {} THEN 0 ELSE SetMax(S)]

\* C24: after any number of callbacks on frames no longer than the ring,
\* the cursor is within the ring and equals the number of samples written
\* modulo the capacity, and the ring holds the most recent samples in
\* arrival order, zeros where nothing was written.
C24_RingHoldsMostRecent ==
    LET cap   == Len(self.tampon_historique)
        total == ncb * self.taille_tampon
    IN  /\ 0 <= self.position_tampon /\ self.position_tampon < cap
        /\ self.position_tampon = total % cap
        /\ self.tampon_historique = DerniersEchantillons(total, cap)

\* two frames of three have been written to a ring of four: the second one
\* lies across the end of the ring
C24_Witness ==
    /\ ncb = 2
    /\ self.taille_tampon = 3
    /\ self.position_tampon = 2
    /\ self.tampon_historique = <<5, 6, 3, 4>>

\* what the callback's transform leaves behind: filter state, ring, cursor
EtatTraitement(s) == <<s.z, s.tampon_historique, s.position_tampon>>

\* C25: whatever the two display draws of a callback, its output frame and
\* the filter state, ring and cursor it leaves are those of the run from the
\* same state on the same frame in which neither display buffer is sampled.
C25_TransformDeterministic ==
    [][last'.op = "callback_audio" =>
          LET m == CbRun([self |-> self, pa |-> pa, out |-> outdata,
                          cb |-> CbEntry(self.stream, last'.args,
                                         FALSE, FALSE, 1)])
          IN  /\ outdata' = m.out
              /\ EtatTraitement(self') = EtatTraitement(m.self)]_vars

\* a callback has sampled its input frame into the input display buffer and
\* not its non-zero output frame into the output one
C25_Witness ==
    /\ last.op = "callback_audio"
    /\ ncb = 1
    /\ \E i \in DOMAIN outdata : outdata[i] # 0
    /\ self.donnees_entree # Zeros(Len(self.donnees_entree))
    /\ self.donnees_sortie = Zeros(Len(self.donnees_sortie))

(* ----------------------- zero-state specification --------------------- *)
\* arguments of regler_parametres that design a new valid filter: an order
\* below and one above the initial one, a low cutoff, a sample rate
DeltasZero ==
    {[ordre |-> 1], [ordre |-> 3], [freq_basse |-> 2], [taux_echant |-> 12]}

SamplesZero == {0, 100}

ReglerZero == Regler(DeltasZero, DevicesVie)

RappelZero == Rappel(SamplesZero, {TRUE}, MaxCallbacks)

\* construction, start, the updates of the filter, callbacks on silent and
\* on loud frames
NextZero == DemarrerVie \/ ReglerZero \/ RappelZero

SpecZero == Init /\ [][NextZero]_vars

\* the state of the filter of s is all zero, and the filter of s turns a
\* frame of n zeros into n zeros and leaves its state all zero
EtatNul(s, n) ==
    LET r == lfilter(s.b, s.a, Zeros(n), s.z)
    IN  /\ s.z = Zeros(2 * s.ordre_filtre)
        /\ r.ok
        /\ r.y = Zeros(n)
        /\ r.zf = Zeros(2 * s.ordre_filtre)

\* the call has designed the filter anew (lines 290-297)
ARecalcule ==
    /\ last'.op = "regler_parametres"
    /\ ~last'.raised
    /\ \/ Has(last'.args, "freq_basse") \/ Has(last'.args, "freq_haute")
       \/ self'.ordre_filtre # self.ordre_filtre
       \/ self'.taux_echantillonnage # self.taux_echantillonnage

\* C26: with valid filter parameters, after construction and after every
\* regler_parametres that designs the filter anew, the filter state is all
\* zero and an all-zero frame is filtered to an all-zero frame with the
\* state left all zero; a callback on an all-zero frame from an all-zero
\* state leaves the state all zero and outputs the clamped reference alone.
C26_ZeroStateZeroOutput ==
    /\ ParamsValides(self) => EtatNul(self, self.taille_tampon)
    /\ [][/\ (ARecalcule /\ ParamsValides(self'))
              => EtatNul(self', self'.taille_tampon)
          /\ (/\ last'.op = "callback_audio"
              /\ last'.args = Zeros(Len(last'.args))
              /\ self.z = Zeros(Len(self.z)))
              => /\ self'.z = Zeros(2 * self.ordre_filtre)
                 /\ outdata' =
                        IF self.delai_compensation > 0
                        THEN SortieMixee(
                                 LireHistorique(self'.tampon_historique,
                                                self'.position_tampon
                                                    - self.delai_compensation,
                                                Len(last'.args)),
                                 [self EXCEPT !.gain = 0], last'.args)
                        ELSE Zeros(Len(last'.args))]_vars

\* after regler_parametres(ordre=3) on a running engine, a callback has
\* processed an all-zero frame and the six values of the filter state are 0
C26_Witness ==
    /\ last.op = "callback_audio"
    /\ last.args = Zeros(Len(last.args))
    /\ self.ordre_filtre = 3
    /\ self.z = Zeros(6)
    /\ Len(outdata) = Len(last.args)

(* ---------------------- latency-mode specification -------------------- *)
\* arguments of regler_parametres that switch the latency mode: low latency
\* alone and with an order, the quality mode as the interface sets it
\* (order and frame size above the low-latency limits), a large frame size
DeltasMode ==
    {[mode_faible_latence |-> TRUE],
     [mode_faible_latence |-> TRUE, ordre |-> 3],
     [mode_faible_latence |-> FALSE, ordre |-> 3, taille_tampon |-> 3],
     [taille_tampon |-> 3]}

ReglerMode == Regler(DeltasMode, DevicesVie)

NextMode == DemarrerVie \/ ReglerMode \/ RappelCtl

SpecMode == Init /\ [][NextMode]_vars

\* C27: after every regler_parametres(mode_faible_latence=True) that
\* returns, the filter order is at most 2 and the frame size at most 256,
\* and the stream was restarted if the engine was running and the frame size
\* was reduced.
C27_LowLatencyReducesOrderAndFrame ==
    [][(/\ last'.op = "regler_parametres"
        /\ ~last'.raised
        /\ Has(last'.args, "mode_faible_latence")
        /\ last'.args.mode_faible_latence)
       => /\ self'.ordre_filtre <= ORDRE_FAIBLE_LATENCE
          /\ self'.taille_tampon <= TAILLE_FAIBLE_LATENCE
          /\ (self.en_cours /\ self'.taille_tampon < self.taille_tampon)
                 => last'.tentatives >= 1]_vars

\* C28: demarrer() on a running engine returns False and changes neither
\* the engine nor any stream; and after every call at most one stream that
\* the engine has opened is not closed.
C28_StartWhileRunningNoSecondStream ==
    [][/\ (last'.op = "demarrer" /\ self.en_cours)
              => /\ ~last'.raised
                 /\ last'.ret = FALSE
                 /\ last'.tentatives = 0
                 /\ self' = self
                 /\ pa' = pa
       /\ Cardinality(Open(pa')) <= 1]_vars

(* ------------------------ restart specification ----------------------- *)
\* what the device answers, with the one latency of 0.2499 s
DevicesRedem ==
    {[ctor |-> FALSE, start |-> FALSE, latency |-> <<0, 0>>]}
    \cup [ctor : {TRUE}, start : BOOLEAN, latency : {<<100000, 149900>>}]

\* arguments of regler_parametres that give a delay: with a frame size,
\* which restarts a running stream, and alone
DeltasRedem ==
    {[delai |-> 7, taille_tampon |-> 1], [delai |-> 7, taille_tampon |-> 2],
     [delai |-> 3]}

DemarrerRedem == Demarrer(DevicesRedem)

ReglerRedem == Regler(DeltasRedem, DevicesRedem)

\* start, stop, the updates that give a delay, callbacks
NextRedem == DemarrerRedem \/ Arreter \/ ReglerRedem \/ RappelCtl

SpecRedem == Init /\ [][NextRedem]_vars

\* the call that has just returned has started a stream
ADemarre ==
    /\ ~last.raised
    /\ \/ last.op = "demarrer" /\ last.ret = TRUE
       \/ last.op = "regler_parametres" /\ last.tentatives >= 1

\* C29: after every call that has started a stream - demarrer(), or a
\* regler_parametres() that restarted it, whatever delay it was given - the
\* delay is the integer part of the reported latency times the sample rate,
\* with no margin added.
C29_StartSetsDelayFromLatency ==
    ADemarre =>
        LET st  == pa.streams[self.stream]
            lat == st.latency[1] + st.latency[2]
            d   == self.delai_compensation
        IN  /\ d * US_PAR_S <= lat * self.taux_echantillonnage
            /\ lat * self.taux_echantillonnage < (d + 1) * US_PAR_S

\* regler_parametres(delai=7, taille_tampon=...) has restarted the stream
\* and the delay is not 7
C29_Witness ==
    /\ last.op = "regler_parametres"
    /\ ~last.raised
    /\ last.tentatives = 1
    /\ last.args.delai = 7
    /\ self.en_cours
    /\ self.delai_compensation # 7

\* C30: neither arreter() nor demarrer() writes the history ring, the write
\* cursor, the filter coefficients, the filter state or the gain.
C30_RestartKeepsProcessingState ==
    [][last'.op \in {"arreter", "demarrer"} =>
          /\ self'.tampon_historique = self.tampon_historique
          /\ self'.position_tampon = self.position_tampon
          /\ self'.b = self.b /\ self'.a = self.a
          /\ self'.z = self.z
          /\ self'.gain = self.gain]_vars

\* the engine has been started again after a callback and a stop, and the
\* ring and the filter state still hold what that callback left
C30_Witness ==
    /\ last.op = "demarrer" /\ ~last.raised /\ last.ret = TRUE
    /\ ncb = 1
    /\ self.en_cours
    /\ Cardinality(Open(pa)) = 1
    /\ self.position_tampon > 0
    /\ \E i \in DOMAIN self.tampon_historique : self.tampon_historique[i] # 0
    /\ \E i \in DOMAIN self.z : self.z[i] # 0

\* the capacity of the history ring
Capacite(s) == Len(s.tampon_historique)

\* C31: the ring has sampleRate // 2 places at construction and no call and
\* no callback changes its capacity; after a regler_parametres that changes
\* the sample rate to one with another half, restarting the stream or not,
\* the capacity is the one of construction and not half the new rate.
C31_RingCapacityFixed ==
    /\ Capacite(self) = self.taux_echantillonnage \div 2
    /\ [][/\ Capacite(self') = Capacite(self)
          /\ (/\ last'.op = "regler_parametres"
              /\ Capacite(self) = self.taux_echantillonnage \div 2
              /\ self'.taux_echantillonnage \div 2
                     # self.taux_echantillonnage \div 2)
              => Capacite(self') # self'.taux_echantillonnage \div 2]_vars

\* regler_parametres(taux_echant=12) has restarted an engine built for the
\* rate 8: the stream runs at 12 and the ring still has 4 places
C31_Witness ==
    /\ last.op = "regler_parametres"
    /\ ~last.raised
    /\ last.tentatives = 1
    /\ self.en_cours
    /\ self.taux_echantillonnage = 12
    /\ pa.streams[self.stream].samplerate = 12
    /\ Capacite(self) = 4

====
